---- MODULE Spec2Model ----
(***************************************************************************)
(* Model of extract.py: extraction of 8x8 QuickDraw patterns from the      *)
(* DeRez dump of PAT# resources.                                           *)
(*                                                                         *)
(* Text is a sequence of one-character strings, bytes are sequences of     *)
(* 0..255, an image is a function from <<x, y>> to a pixel value, and the  *)
(* output directory is a function from file names to file contents.        *)
(***************************************************************************)
EXTENDS Integers, Sequences, FiniteSets, TLC

VARIABLES
    blocks,   \* the matches of PATBLOCK_RE in the input text: <<[resid, body]>>
    outdir,   \* the output directory: file name -> content
    pc,       \* position of main: "loop", "done", "nofound", "failed"
              \* (of a function checked on its own: "call", "image", "return")
    idx,      \* number of matches the for loop of main has consumed
    stdout,   \* lines printed so far by the current run
    run,      \* 1 for the first run of the program, 2 for the second
    history,  \* per block handled by the current run: what it raised and wrote
    before,   \* the output directory as the current run found it
    arg,      \* argument of the function under test (pure-function specs)
    ret       \* what the function under test returned or raised

vars == <<blocks, outdir, pc, idx, stdout, run, history, before, arg, ret>>

-----------------------------------------------------------------------------
\* value of a variable that nothing has set yet
Idle == <<>>

(* Bounds of the model *)

MaxBlocks == 2
MaxSegs == 3
MaxCount == 2
MaxExtra == 2
MaxStep == 2

-----------------------------------------------------------------------------
(* Characters *)

HexChars == <<"0", "1", "2", "3", "4", "5", "6", "7", "8", "9",
              "A", "B", "C", "D", "E", "F">>

LowerHexChars == <<"0", "1", "2", "3", "4", "5", "6", "7", "8", "9",
                   "a", "b", "c", "d", "e", "f">>

\* [0-9A-Fa-f], the complement of the class re.sub deletes
IsHexDigit(c) ==
    \E k \in 1..16 : c = HexChars[k] \/ c = LowerHexChars[k]

\* the value int(c, 16) gives one hex digit
HexVal(c) ==
    CHOOSE v \in 0..15 : c = HexChars[v + 1] \/ c = LowerHexChars[v + 1]

\* the class \s, as far as the input texts use it
IsSpace(c) == c \in {" ", "\t", "\n", "\r", "\f"}

RECURSIVE Concat(_)
\* "".join(chunks)
Concat(chunks) ==
    IF chunks = <<>> THEN <<>> ELSE Head(chunks) \o Concat(Tail(chunks))

-----------------------------------------------------------------------------
(* HEXSTR_RE = \$\s*"(.*?)" with DOTALL, and findall *)

\* first position >= j of s that holds a double quote, 0 when there is none
FindQuote(s, j) ==
    IF \E k \in j..Len(s) : s[k] = "\""
    THEN CHOOSE k \in j..Len(s) :
             s[k] = "\"" /\ \A m \in j..(k - 1) : s[m] # "\""
    ELSE 0

\* first position >= j of s that holds no whitespace, Len(s) + 1 when none
SkipSpace(s, j) ==
    IF \E k \in j..Len(s) : ~IsSpace(s[k])
    THEN CHOOSE k \in j..Len(s) :
             ~IsSpace(s[k]) /\ \A m \in j..(k - 1) : IsSpace(s[m])
    ELSE Len(s) + 1

RECURSIVE HEXSTR_findall(_, _)
\* the groups of the non-overlapping matches of HEXSTR_RE in s from position p
HEXSTR_findall(s, p) ==
    IF p > Len(s) THEN <<>>
    ELSE IF s[p] # "$" THEN HEXSTR_findall(s, p + 1)
    ELSE LET q == SkipSpace(s, p + 1)
             open == q <= Len(s) /\ s[q] = "\""
             close == IF open THEN FindQuote(s, q + 1) ELSE 0
         IN  IF close = 0
             THEN HEXSTR_findall(s, p + 1)
             ELSE <<SubSeq(s, q + 1, close - 1)>>
                      \o HEXSTR_findall(s, close + 1)

-----------------------------------------------------------------------------
(* parse_derez_patsharp_bytes *)

OddHexError == "Odd number of hex digits found; input may be malformed."

\* re.sub(r"[^0-9A-Fa-f]", "", chunk)
Cleaned(chunk) == SelectSeq(chunk, IsHexDigit)

\* mutant: the second digit of a pair taken as the high nibble
PairValueLowFirst(hex_str, k) ==
    HexVal(hex_str[2 * k - 1]) + 16 * HexVal(hex_str[2 * k])

\* int(hex_str[i : i + 2], 16) for the k-th pair
PairValue(hex_str, k) ==
    16 * HexVal(hex_str[2 * k - 1]) + HexVal(hex_str[2 * k])

\* mutant: no check of the digit count, a last single digit is dropped
parse_derez_unchecked(block_text) ==
    LET hex_chunks == HEXSTR_findall(block_text, 1)
        hex_only == [k \in 1..Len(hex_chunks) |-> Cleaned(hex_chunks[k])]
        hex_str == Concat(hex_only)
    IN  [raised |-> "",
         val |-> [k \in 1..(Len(hex_str) \div 2) |-> PairValue(hex_str, k)]]

\* the byte sequence, or the ValueError raised
parse_derez_patsharp_bytes(block_text) ==
    LET hex_chunks == HEXSTR_findall(block_text, 1)
        hex_only == [k \in 1..Len(hex_chunks) |-> Cleaned(hex_chunks[k])]
        hex_str == Concat(hex_only)
    IN  IF hex_chunks = <<>>
        THEN [raised |-> "", val |-> <<>>]
        ELSE IF Len(hex_str) % 2 # 0
        THEN [raised |-> OddHexError, val |-> <<>>]
        ELSE [raised |-> "",
              val |-> [k \in 1..(Len(hex_str) \div 2) |-> PairValue(hex_str, k)]]

-----------------------------------------------------------------------------
(* decode_patsharp *)

\* mutant: the count field read little-endian
CountFieldLittle(raw) == raw[1] + 256 * raw[2]

\* int.from_bytes(raw[:2], "big")
CountField(raw) == raw[1] * 256 + raw[2]

\* expected = 2 + count * 8
Expected(count) == 2 + count * 8

NoError == [kind |-> "none"]

\* ValueError("PAT# too short to contain count.")
TooShortError == [kind |-> "PAT# too short to contain count."]

\* ValueError(f"PAT# truncated: count={count}, need {expected} bytes, got {len(raw)}.")
TruncatedError(count, expected, got) ==
    [kind |-> "PAT# truncated", count |-> count, need |-> expected, got |-> got]

\* print(f"[warn] PAT# has {extra} trailing byte(s) beyond the declared count; ignoring.")
TrailingWarning(extra) == [line |-> "[warn] trailing bytes", n |-> extra]

\* mutant: off starts at 0, the count field is taken for pattern bytes
PatternAtNoHeader(raw, i) == SubSeq(raw, 8 * i + 1, 8 * i + 8)

\* raw[off : off + 8] with off = 2 + 8 * i
PatternAt(raw, i) == SubSeq(raw, 2 + 8 * i + 1, 2 + 8 * i + 8)

\* mutant: the loop runs count - 1 times
decode_patsharp_one_less(raw) ==
    IF Len(raw) < 2
    THEN [raised |-> TooShortError, patterns |-> <<>>, printed |-> <<>>]
    ELSE LET count == CountField(raw)
             expected == Expected(count)
         IN  IF Len(raw) < expected
             THEN [raised |-> TruncatedError(count, expected, Len(raw)),
                   patterns |-> <<>>, printed |-> <<>>]
             ELSE [raised |-> NoError,
                   patterns |-> [k \in 1..(count - 1) |-> PatternAt(raw, k - 1)],
                   printed |-> IF Len(raw) > expected
                               THEN <<TrailingWarning(Len(raw) - expected)>>
                               ELSE <<>>]

\* the patterns and the lines printed, or the ValueError raised
decode_patsharp(raw) ==
    IF Len(raw) < 2
    THEN [raised |-> TooShortError, patterns |-> <<>>, printed |-> <<>>]
    ELSE LET count == CountField(raw)
             expected == Expected(count)
         IN  IF Len(raw) < expected
             THEN [raised |-> TruncatedError(count, expected, Len(raw)),
                   patterns |-> <<>>, printed |-> <<>>]
             ELSE [raised |-> NoError,
                   patterns |-> [k \in 1..count |-> PatternAt(raw, k - 1)],
                   printed |-> IF Len(raw) > expected
                               THEN <<TrailingWarning(Len(raw) - expected)>>
                               ELSE <<>>]

-----------------------------------------------------------------------------
(* pattern_to_image, write_pbm *)

RECURSIVE Pow2(_)
Pow2(n) == IF n = 0 THEN 1 ELSE 2 * Pow2(n - 1)

\* mutant: the least significant bit taken for the leftmost pixel
BitAtLsbFirst(byte, x) == (byte \div Pow2(x)) % 2

\* (byte >> (7 - x)) & 1
BitAt(byte, x) == (byte \div Pow2(7 - x)) % 2

Pixels8 == (0..7) \X (0..7)

\* Image.new("1", (8, 8), 1), then px[x, y] = 0 if bit else 1 for each row given
pattern_to_image(rows) ==
    [p \in Pixels8 |->
        IF p[2] + 1 <= Len(rows)
        THEN (IF BitAt(rows[p[2] + 1], p[1]) = 1 THEN 0 ELSE 1)
        ELSE 1]

\* the text of the .pbm file: header P1, 8 8, then one line of digits per row
write_pbm(rows) ==
    [magic |-> "P1", width |-> 8, height |-> 8,
     lines |-> [y \in 1..Len(rows) |-> [x \in 1..8 |-> BitAt(rows[y], x - 1)]]]

-----------------------------------------------------------------------------
(* The output directory: files by name, and the names written, in order *)

RECURSIVE Dec(_)
\* the decimal digits of n
Dec(n) == IF n < 10 THEN <<n>> ELSE Dec(n \div 10) \o <<n % 10>>

\* f"{i:02d}"
Pad02(i) == IF i < 10 THEN <<0, i>> ELSE Dec(i)

\* outdir / f"pattern_{i:02d}.pbm"
PbmPath(i) == [stem |-> "pattern_", num |-> Pad02(i), ext |-> ".pbm"]

\* outdir / f"patsharp_{resid}_sheet.png"
SheetPath(resid) == [stem |-> "patsharp_", num |-> Dec(resid), ext |-> "_sheet.png"]

\* outdir / f"patsharp_{resid}_sheet_labeled.png"
LabeledPath(resid) ==
    [stem |-> "patsharp_", num |-> Dec(resid), ext |-> "_sheet_labeled.png"]

EmptyDir == [n \in {} |-> Idle]

\* mutant: exclusive creation, a file that exists is left as it is
PutKeep(fs, path, content) ==
    [files |-> [n \in DOMAIN fs.files \cup {path} |->
                    IF n \in DOMAIN fs.files THEN fs.files[n] ELSE content],
     log |-> Append(fs.log, path)]

\* open(path, "w") ... / sheet.save(path): the file is created or replaced
Put(fs, path, content) ==
    [files |-> [n \in DOMAIN fs.files \cup {path} |->
                    IF n = path THEN content ELSE fs.files[n]],
     log |-> Append(fs.log, path)]

-----------------------------------------------------------------------------
(* save_sprite_sheet, save_labeled_sprite_sheet *)

\* (len(images) + cols - 1) // cols
SheetRows(n, cols) == (n + cols - 1) \div cols

\* Image.new("1", (cols * 8, rows * 8), 1), then image i pasted at (c * 8, r * 8)
SheetImage(images, cols) ==
    LET rows == SheetRows(Len(images), cols)
    IN  [width |-> cols * 8, height |-> rows * 8,
         px |-> [p \in (0..(cols * 8 - 1)) \X (0..(rows * 8 - 1)) |->
                    LET i == (p[2] \div 8) * cols + (p[1] \div 8)
                    IN  IF i < Len(images)
                        THEN images[i + 1][<<p[1] % 8, p[2] % 8>>]
                        ELSE 1]]

save_sprite_sheet(fs, images, cols, out_path) ==
    IF images = <<>> THEN fs
    ELSE Put(fs, out_path, SheetImage(images, cols))

\* the labeled sheet as what is drawn on it: per image the scaled paste and
\* the index text below it
LabeledImage(images, cols, scale) ==
    LET rows == SheetRows(Len(images), cols)
        pattern_size == 8 * scale
        label_height == 12
        cell_w == pattern_size + 2
        cell_h == pattern_size + label_height + 2
    IN  [width |-> cols * cell_w, height |-> rows * cell_h,
         cells |-> [k \in 1..Len(images) |->
                      LET r == (k - 1) \div cols
                          c == (k - 1) % cols
                          x == c * cell_w + 1
                          y == r * cell_h + 1
                      IN  [at |-> <<x, y>>, size |-> pattern_size,
                           im |-> images[k],
                           label |-> Dec(k - 1),
                           label_at |-> <<x, y + pattern_size + 2>>]]]

save_labeled_sprite_sheet(fs, images, cols, out_path, scale) ==
    IF images = <<>> THEN fs
    ELSE Put(fs, out_path, LabeledImage(images, cols, scale))

-----------------------------------------------------------------------------
(* main *)

RECURSIVE WritePatternsFresh(_, _, _)
\* mutant: each file is numbered after the files the directory already holds
WritePatternsFresh(fs, patterns, k) ==
    IF k > Len(patterns) THEN fs
    ELSE WritePatternsFresh(
             Put(fs, PbmPath(Cardinality(DOMAIN fs.files)), write_pbm(patterns[k])),
             patterns, k + 1)

RECURSIVE WritePatterns(_, _, _)
\* the loop over enumerate(patterns), from pattern number k on: write_pbm
WritePatterns(fs, patterns, k) ==
    IF k > Len(patterns) THEN fs
    ELSE WritePatterns(Put(fs, PbmPath(k - 1), write_pbm(patterns[k])),
                       patterns, k + 1)

\* imgs, as the loop over enumerate(patterns) builds it
Imgs(patterns) == [k \in 1..Len(patterns) |-> pattern_to_image(patterns[k])]

\* the body of the for loop on one match, when nothing raises
Export(dir, resid, patterns) ==
    LET fs0 == [files |-> dir, log |-> <<>>]
        fs1 == WritePatterns(fs0, patterns, 1)
        fs2 == save_sprite_sheet(fs1, Imgs(patterns), 8, SheetPath(resid))
    IN  save_labeled_sprite_sheet(fs2, Imgs(patterns), 8, LabeledPath(resid), 4)

\* print(f"[ok] Exported {len(patterns)} patterns from PAT#({resid}) to {outdir}")
OkLine(n, resid) == [line |-> "[ok] Exported", n |-> n, resid |-> resid]

\* what the two decoding calls of the loop body give: raw, then patterns
Decoded(body) ==
    LET raw == parse_derez_patsharp_bytes(body)
    IN  IF raw.raised # ""
        THEN [raised |-> [kind |-> raw.raised], patterns |-> <<>>, printed |-> <<>>]
        ELSE decode_patsharp(raw.val)

\* one iteration of the for loop that runs to its end
BlockExported ==
    /\ pc = "loop"
    /\ idx < Len(blocks)
    /\ LET m == blocks[idx + 1]
           d == Decoded(m.body)
           fs == Export(outdir, m.resid, d.patterns)
       IN  /\ d.raised = NoError
           /\ outdir' = fs.files
           /\ stdout' = stdout \o d.printed \o <<OkLine(Len(d.patterns), m.resid)>>
           /\ history' = Append(history,
                  [resid |-> m.resid, raised |-> d.raised,
                   imgs |-> Len(Imgs(d.patterns)), wrote |-> fs.log])
    /\ idx' = idx + 1
    /\ UNCHANGED <<blocks, pc, run, before, arg, ret>>

\* one iteration in which parse_derez_patsharp_bytes or decode_patsharp raises:
\* nothing in main catches it, the program ends with a traceback
BlockRaises ==
    /\ pc = "loop"
    /\ idx < Len(blocks)
    /\ LET m == blocks[idx + 1]
           d == Decoded(m.body)
       IN  /\ d.raised # NoError
           /\ history' = Append(history,
                  [resid |-> m.resid, raised |-> d.raised,
                   imgs |-> 0, wrote |-> <<>>])
    /\ idx' = idx + 1
    /\ pc' = "failed"
    /\ UNCHANGED <<blocks, outdir, stdout, run, before, arg, ret>>

\* the for loop is exhausted and any_found is set
ExitOk ==
    /\ pc = "loop"
    /\ idx = Len(blocks)
    /\ idx > 0
    /\ pc' = "done"
    /\ UNCHANGED <<blocks, outdir, idx, stdout, run, history, before, arg, ret>>

\* the for loop had no match: SystemExit("No PAT# blocks found. ...")
ExitNoBlocks ==
    /\ pc = "loop"
    /\ idx = Len(blocks)
    /\ idx = 0
    /\ pc' = "nofound"
    /\ UNCHANGED <<blocks, outdir, idx, stdout, run, history, before, arg, ret>>

Ended == pc \in {"done", "nofound", "failed"}

\* the program is started again on the same rfile and the same --outdir
RunAgain ==
    /\ Ended
    /\ run = 1
    /\ run' = 2
    /\ before' = outdir
    /\ pc' = "loop"
    /\ idx' = 0
    /\ stdout' = <<>>
    /\ history' = <<>>
    /\ UNCHANGED <<blocks, outdir, arg, ret>>

-----------------------------------------------------------------------------
(* Input texts of main *)

\* a byte as DeRez prints it
HexOf(b) == <<HexChars[(b \div 16) + 1], HexChars[(b % 16) + 1]>>

\* the inside of a literal: two bytes per group, groups separated by a space
HexText(bytes) ==
    Concat([k \in 1..Len(bytes) |->
               HexOf(bytes[k])
                   \o (IF k % 2 = 0 /\ k < Len(bytes) THEN <<" ">> ELSE <<>>)])

Literal(bytes) == <<"$", "\"">> \o HexText(bytes) \o <<"\"">>

RECURSIVE DeRezBody(_)
\* the body DeRez prints for a resource: one literal per 16 bytes
DeRezBody(bytes) ==
    IF Len(bytes) <= 16 THEN Literal(bytes)
    ELSE Literal(SubSeq(bytes, 1, 16)) \o <<"\n", "\t">>
             \o DeRezBody(SubSeq(bytes, 17, Len(bytes)))

PatStripe == <<255, 0, 0, 0, 0, 0, 0, 0>>
PatGray == <<170, 85, 170, 85, 170, 85, 170, 85>>
PatDiag == <<128, 64, 32, 16, 8, 4, 2, 1>>

BodyCount0 == DeRezBody(<<0, 0>>)
BodyOne == <<"$", "\"", "0", "0", "0", "1", " ", "F", "F", "0", "0", "0", "0",
             "0", "0", "0", "0", "0", "0", "0", "0", "0", "0", "\"">>
BodyTwo == DeRezBody(<<0, 2>> \o PatGray \o PatDiag)
BodyTrailing == DeRezBody(<<0, 1>> \o PatDiag \o <<0, 0, 0>>)
BodyTruncated == DeRezBody(<<0, 2>> \o PatStripe \o <<1, 2, 3>>)
BodyOdd == <<"$", "\"">> \o HexText(<<0, 1>> \o PatGray) \o <<"0", "\"">>
BodyNoLiteral == <<"/", "*", " ", "0", "0", "0", "1", " ", "*", "/">>

Bodies == { BodyCount0, BodyOne, BodyTwo, BodyTrailing, BodyTruncated,
            BodyOdd, BodyNoLiteral }

ResIds == {128, 129}

Matches == [resid : ResIds, body : Bodies]

RECURSIVE MatchLists(_)
\* the lists of at most n matches
MatchLists(n) ==
    IF n = 0 THEN { <<>> }
    ELSE LET shorter == MatchLists(n - 1)
         IN  shorter \cup { Append(t, m) : t \in shorter, m \in Matches }

\* an output directory left by an earlier extraction of other patterns
StaleDir ==
    Export(EmptyDir, 130, <<PatDiag, PatStripe, PatGray, PatDiag>>).files

Init ==
    /\ blocks \in MatchLists(MaxBlocks)
    /\ outdir \in {EmptyDir, StaleDir}
    /\ pc = "loop"
    /\ idx = 0
    /\ stdout = <<>>
    /\ run = 1
    /\ history = <<>>
    /\ before = outdir
    /\ arg = Idle
    /\ ret = Idle

Next ==
    \/ BlockExported
    \/ BlockRaises
    \/ ExitOk
    \/ ExitNoBlocks
    \/ RunAgain

Spec == Init /\ [][Next]_vars

-----------------------------------------------------------------------------
(* Inputs of the functions checked on their own *)

\* pieces of block text: single characters, whole literals, broken literals
Segments ==
    { <<"$">>, <<"\"">>, <<" ">>, <<"1">>, <<"f">>, <<"A">>, <<"x">>,
      <<"$", "\"", "1", "\"">>,
      <<"$", "\"", "f", "A", "\"">>,
      <<"$", " ", "\"", "A", " ", "1", "\"">>,
      <<"$", "\"", "x", "1">>,
      <<"/", "*", "1", "*", "/", "\n">> }

RECURSIVE SegmentTexts(_)
\* the texts made of at most n segments
SegmentTexts(n) ==
    IF n = 0 THEN { <<>> }
    ELSE LET shorter == SegmentTexts(n - 1)
         IN  shorter \cup { t \o g : t \in shorter, g \in Segments }

SegmentBodies == SegmentTexts(MaxSegs)

Seeds == {0, 17, 255}

\* byte k of a generated payload
Fill(seed, k) == (seed + 37 * k) % 256

\* a raw resource of the given length whose first two bytes are hi, lo
RawOf(hi, lo, len, seed) ==
    [k \in 1..len |-> IF k = 1 THEN hi ELSE IF k = 2 THEN lo ELSE Fill(seed, k)]

MaxRawLen == Expected(MaxCount) + MaxExtra

RawInputs ==
    { RawOf(hi, lo, len, seed) :
        hi \in {0, 1}, lo \in 0..MaxCount, len \in 0..MaxRawLen, seed \in Seeds }

\* 8-row patterns: every byte value occurs in every row
PatternInputs ==
    { [y \in 1..8 |-> (b + (y - 1) * s) % 256] : b \in 0..255, s \in 0..MaxStep }

MainIdle ==
    /\ blocks = <<>> /\ outdir = <<>> /\ idx = 0 /\ stdout = <<>>
    /\ run = 0 /\ history = <<>> /\ before = <<>>

MainUnchanged == UNCHANGED <<blocks, outdir, idx, stdout, run, history, before>>

-----------------------------------------------------------------------------
(* parse_derez_patsharp_bytes on its own *)

InitParse == MainIdle /\ pc = "call" /\ arg \in SegmentBodies \cup Bodies /\ ret = Idle

CallParse ==
    /\ pc = "call"
    /\ ret' = parse_derez_patsharp_bytes(arg)
    /\ pc' = "return"
    /\ UNCHANGED arg /\ MainUnchanged

SpecParse == InitParse /\ [][CallParse]_vars

-----------------------------------------------------------------------------
(* decode_patsharp on its own *)

InitDecode == MainIdle /\ pc = "call" /\ arg \in RawInputs /\ ret = Idle

CallDecode ==
    /\ pc = "call"
    /\ ret' = decode_patsharp(arg)
    /\ pc' = "return"
    /\ UNCHANGED arg /\ MainUnchanged

SpecDecode == InitDecode /\ [][CallDecode]_vars

-----------------------------------------------------------------------------
(* pattern_to_image and write_pbm on one pattern, in the order main calls them *)

InitRaster == MainIdle /\ pc = "call" /\ arg \in PatternInputs /\ ret = Idle

CallPatternToImage ==
    /\ pc = "call"
    /\ ret' = [img |-> pattern_to_image(arg), pbm |-> Idle]
    /\ pc' = "image"
    /\ UNCHANGED arg /\ MainUnchanged

CallWritePbm ==
    /\ pc = "image"
    /\ ret' = [ret EXCEPT !.pbm = write_pbm(arg)]
    /\ pc' = "return"
    /\ UNCHANGED arg /\ MainUnchanged

NextRaster == CallPatternToImage \/ CallWritePbm

SpecRaster == InitRaster /\ [][NextRaster]_vars

-----------------------------------------------------------------------------
(* What a block body says, read off the text position by position *)

Nibble ==
    [c \in {"0", "1", "2", "3", "4", "5", "6", "7", "8", "9",
            "A", "B", "C", "D", "E", "F", "a", "b", "c", "d", "e", "f"} |->
        CASE c = "0" -> 0 [] c = "1" -> 1 [] c = "2" -> 2 [] c = "3" -> 3
          [] c = "4" -> 4 [] c = "5" -> 5 [] c = "6" -> 6 [] c = "7" -> 7
          [] c = "8" -> 8 [] c = "9" -> 9
          [] c \in {"A", "a"} -> 10 [] c \in {"B", "b"} -> 11
          [] c \in {"C", "c"} -> 12 [] c \in {"D", "d"} -> 13
          [] c \in {"E", "e"} -> 14 [] c \in {"F", "f"} -> 15]

\* <<p, q, c>>: a dollar at p, only whitespace up to the opening quote at q,
\* and the next quote after q at c
LiteralShapes(s) ==
    LET dollars == { p \in 1..Len(s) : s[p] = "$" }
        quotes == { q \in 1..Len(s) : s[q] = "\"" }
    IN  { t \in dollars \X quotes \X quotes :
            /\ t[1] < t[2] /\ t[2] < t[3]
            /\ \A m \in (t[1] + 1)..(t[2] - 1) : IsSpace(s[m])
            /\ \A m \in (t[2] + 1)..(t[3] - 1) : s[m] # "\"" }

RECURSIVE Literals(_, _)
\* the literals of s from position p on: the leftmost one, then those after it
Literals(s, p) ==
    LET cands == { t \in LiteralShapes(s) : t[1] >= p }
    IN  IF cands = {} THEN {}
        ELSE LET first == CHOOSE t \in cands : \A u \in cands : t[1] <= u[1]
             IN  {first} \cup Literals(s, first[3] + 1)

\* the positions of s that hold a hex digit inside a literal
DigitPositions(s) ==
    { m \in 1..Len(s) :
        /\ s[m] \in DOMAIN Nibble
        /\ \E t \in Literals(s, 1) : t[2] < m /\ m < t[3] }

\* the values of the digits inside the literals of s, in text order
DigitStream(s) ==
    LET D == DigitPositions(s)
    IN  [k \in 1..Cardinality(D) |->
            Nibble[s[CHOOSE m \in D : Cardinality({ n \in D : n < m }) = k - 1]]]

\* the digit stream read two digits at a time, most significant nibble first
PayloadOf(s) ==
    LET ds == DigitStream(s)
    IN  [k \in 1..(Len(ds) \div 2) |-> 16 * ds[2 * k - 1] + ds[2 * k]]

OddStream(s) == Len(DigitStream(s)) % 2 = 1

\* the big-endian unsigned 16-bit value of the first two bytes
DeclaredCount(bytes) == 256 * bytes[1] + bytes[2]

\* bytes i of pattern number i (from 0) of a payload
PatternBytes(bytes, i) == [y \in 1..8 |-> bytes[2 + 8 * i + y]]

-----------------------------------------------------------------------------
(* Claims about parse_derez_patsharp_bytes *)

\* C9: for a block body whose literals hold an even number of hex digits,
\* parse_derez_patsharp_bytes returns the bytes obtained from the digits inside
\* the $"..." literals, in text order, non-hex characters deleted, read two
\* digits at a time with the most significant nibble first; text outside the
\* literals gives no digit, a body with no literal gives the empty byte
\* sequence without error, and $"0001 FF00000000000000" gives the 10 bytes
\* 00 01 FF 00 00 00 00 00 00 00.
C9_ParseReturnsLiteralBytes ==
    pc = "return" =>
        /\ ~OddStream(arg) => ret.raised = "" /\ ret.val = PayloadOf(arg)
        /\ Literals(arg, 1) = {} => ret.raised = "" /\ ret.val = <<>>
        /\ arg = BodyOne => ret.val = <<0, 1, 255, 0, 0, 0, 0, 0, 0, 0>>

\* a byte whose two digits come from two different literals, with digits
\* outside the literals as well
C9_Witness ==
    /\ pc = "return"
    /\ arg = <<"$", "\"", "1", "\"">> \o <<"A">> \o <<"$", "\"", "1", "\"">>
    /\ Cardinality(Literals(arg, 1)) = 2
    /\ ret.val = <<17>>

-----------------------------------------------------------------------------
(* Claims about decode_patsharp *)

\* the payload is shorter than its count field requires, or has no count field
TooShortFor(raw) ==
    \/ Len(raw) < 2
    \/ Len(raw) < 2 + 8 * DeclaredCount(raw)

\* C4 as stated: every payload shorter than 2 + 8*N, those of length 0 or 1
\* included, makes decode_patsharp return no pattern and raise the truncation
\* error that names N, the required length and the actual length.
C4_Original ==
    (pc = "return" /\ TooShortFor(arg)) =>
        /\ ret.patterns = <<>>
        /\ ret.raised.kind = "PAT# truncated"
        /\ ret.raised.got = Len(arg)
        /\ Len(arg) >= 2 =>
              /\ ret.raised.count = DeclaredCount(arg)
              /\ ret.raised.need = 2 + 8 * DeclaredCount(arg)

\* C4, amended: a payload of at least 2 bytes that is shorter than 2 + 8*N
\* makes decode_patsharp return no pattern and raise the truncation error
\* naming N, 2 + 8*N and the actual length; a payload of 0 or 1 bytes makes it
\* return no pattern and raise the other error, "too short to contain count",
\* which names none of the three.
C4_TruncationNamesCountNeedGot ==
    (pc = "return" /\ TooShortFor(arg)) =>
        /\ ret.patterns = <<>>
        /\ ret.printed = <<>>
        /\ Len(arg) >= 2 =>
              ret.raised = [kind |-> "PAT# truncated",
                            count |-> DeclaredCount(arg),
                            need |-> 2 + 8 * DeclaredCount(arg),
                            got |-> Len(arg)]
        /\ Len(arg) < 2 =>
              ret.raised = [kind |-> "PAT# too short to contain count."]

\* a payload one byte short of its two patterns
C4_Witness ==
    /\ pc = "return"
    /\ Len(arg) = 17
    /\ DeclaredCount(arg) = 2
    /\ ret.raised.kind = "PAT# truncated"
    /\ ret.raised.need = 18

\* C5: a payload longer than 2 + 8*N is decoded without error into exactly
\* the N patterns of its first 2 + 8*N bytes (pattern i = bytes 2+8i .. 2+8i+7,
\* in order), the excess never becomes a pattern, and one notice is printed
\* whose byte count is len(raw) - (2 + 8*N); a payload of exactly 2 + 8*N
\* bytes prints no notice.
C5_TrailingBytesIgnored ==
    (pc = "return" /\ ~TooShortFor(arg)) =>
        LET N == DeclaredCount(arg)
            cut == SubSeq(arg, 1, 2 + 8 * N)
        IN  /\ ret.raised = NoError
            /\ Len(ret.patterns) = N
            /\ \A i \in 0..(N - 1) : ret.patterns[i + 1] = PatternBytes(arg, i)
            /\ ret.patterns = decode_patsharp(cut).patterns
            /\ Len(arg) > 2 + 8 * N =>
                  /\ Len(ret.printed) = 1
                  /\ ret.printed[1].line = "[warn] trailing bytes"
                  /\ ret.printed[1].n = Len(arg) - (2 + 8 * N)
            /\ Len(arg) = 2 + 8 * N => ret.printed = <<>>

\* two patterns followed by two bytes of padding
C5_Witness ==
    /\ pc = "return"
    /\ Len(arg) = 20
    /\ DeclaredCount(arg) = 2
    /\ Len(ret.patterns) = 2
    /\ ret.printed # <<>>

-----------------------------------------------------------------------------
(* Claims about pattern_to_image and write_pbm *)

\* the byte whose bits, most significant first, are bit[1] .. bit[8]
ByteOfBits(bit) ==
    128 * bit[1] + 64 * bit[2] + 32 * bit[3] + 16 * bit[4]
        + 8 * bit[5] + 4 * bit[6] + 2 * bit[7] + bit[8]

\* the rows read back from an image: a black pixel (0) is an ink bit
ReadImage(img) ==
    [y \in 1..8 |-> ByteOfBits([x \in 1..8 |-> 1 - img[<<x - 1, y - 1>>]])]

\* the rows read back from a .pbm file: a digit 1 is an ink bit
ReadPbm(pbm) == [y \in 1..8 |-> ByteOfBits(pbm.lines[y])]

\* C7: with b = bit (7 - x) of byte y, pattern_to_image sets pixel (x, y) to 0
\* when b = 1 and to 1 when b = 0, write_pbm writes the digit b at row y,
\* column x; reading either output back gives the 8 bytes, and the two outputs
\* hold opposite values at every position.
C7_PixelConventions ==
    pc = "return" =>
        /\ DOMAIN ret.img = (0..7) \X (0..7)
        /\ Len(ret.pbm.lines) = 8
        /\ \A x \in 0..7, y \in 0..7 :
              LET b == (arg[y + 1] \div (2 ^ (7 - x))) % 2
              IN  /\ ret.img[<<x, y>>] = (IF b = 1 THEN 0 ELSE 1)
                  /\ ret.pbm.lines[y + 1][x + 1] = b
                  /\ ret.img[<<x, y>>] = 1 - ret.pbm.lines[y + 1][x + 1]
        /\ ReadImage(ret.img) = arg
        /\ ReadPbm(ret.pbm) = arg

\* the pattern of the rows 0xA5, 0xA6, ...: neither symmetric nor uniform
C7_Witness ==
    /\ pc = "return"
    /\ arg = <<165, 166, 167, 168, 169, 170, 171, 172>>
    /\ ret.img[<<0, 0>>] = 0
    /\ ret.img[<<1, 0>>] = 1
    /\ ret.pbm.lines[1] = <<1, 0, 1, 0, 0, 1, 0, 1>>

-----------------------------------------------------------------------------
(* Claims about main *)

\* what each body of the input texts says, read off the text
BodyIsOdd == [s \in Bodies |-> OddStream(s)]
BodyHasLiteral == [s \in Bodies |-> Literals(s, 1) # {}]
BodyPayload == [s \in Bodies |-> PayloadOf(s)]

\* the reconstructed payload is well-formed: length >= 2 + 8*N
WellFormedBody(s) ==
    /\ ~BodyIsOdd[s]
    /\ Len(BodyPayload[s]) >= 2
    /\ Len(BodyPayload[s]) >= 2 + 8 * DeclaredCount(BodyPayload[s])

\* the declared count of a well-formed body
BodyCount(s) == DeclaredCount(BodyPayload[s])

\* the patterns of a well-formed body
BodyPatterns(s) ==
    [k \in 1..BodyCount(s) |-> PatternBytes(BodyPayload[s], k - 1)]

\* the files block k gives when it is extracted alone into an empty directory
OwnFiles(k) ==
    Export(EmptyDir, blocks[k].resid, BodyPatterns(blocks[k].body)).files

IsPbm(n) == n.ext = ".pbm"

\* C1 as stated: a block whose reconstruction or decoding fails does not halt
\* the run; every valid block of the source, those after the failing one
\* included, has its pattern files and sheets written.
C1_Original ==
    (Ended /\ \A j \in 1..Len(blocks) : BodyHasLiteral[blocks[j].body]) =>
        \A k \in 1..Len(blocks) :
            WellFormedBody(blocks[k].body) =>
                /\ k <= Len(history)
                /\ history[k].raised = NoError
                /\ DOMAIN OwnFiles(k) \subseteq DOMAIN outdir

\* C2 as stated: with two blocks of distinct ids, no file written for the
\* first block is altered by the second; after the run the per-pattern files
\* and the sheets of both blocks are present with the contents decoded from
\* their own block.
C2_Original ==
    (pc = "done" /\ Len(blocks) = 2 /\ blocks[1].resid # blocks[2].resid) =>
        \A k \in 1..2 :
            \A n \in DOMAIN OwnFiles(k) :
                n \in DOMAIN outdir /\ outdir[n] = OwnFiles(k)[n]

\* C3: a block whose payload is well-formed (length >= 2 + 8*N) gives exactly
\* N pattern images and writes exactly N per-pattern files, of indices
\* 0 .. N-1; with N = 0 it gives no image, writes no file, no sheet either,
\* and raises nothing.
C3_CountImagesAndFiles ==
    \A k \in 1..Len(history) :
        WellFormedBody(blocks[k].body) =>
            LET N == BodyCount(blocks[k].body)
                h == history[k]
            IN  /\ h.raised = NoError
                /\ h.imgs = N
                /\ SelectSeq(h.wrote, IsPbm) = [i \in 1..N |-> PbmPath(i - 1)]
                /\ \A i \in 0..(N - 1) : PbmPath(i) \in DOMAIN outdir
                /\ N = 0 => h.wrote = <<>>

\* a run that has exported a block of count 0, then one of count 2
C3_Witness ==
    /\ Len(history) = 2
    /\ blocks[1].body = BodyCount0
    /\ history[1].raised = NoError
    /\ history[1].wrote = <<>>
    /\ blocks[2].body = BodyTwo
    /\ history[2].imgs = 2

\* the names the blocks handled so far by this run have written
WrittenNames ==
    UNION { { history[k].wrote[j] : j \in 1..Len(history[k].wrote) } :
              k \in 1..Len(history) }

\* C6: a block whose hex-digit stream has odd length makes byte
\* reconstruction raise the malformed-hex error (a block without literal does
\* not raise it), and processing that block writes no file: no per-pattern
\* file and no sheet.
C6_OddStreamWritesNothing ==
    /\ \A k \in 1..Len(history) :
          /\ BodyIsOdd[blocks[k].body] =>
                /\ history[k].raised.kind = OddHexError
                /\ history[k].imgs = 0
                /\ history[k].wrote = <<>>
          /\ ~BodyHasLiteral[blocks[k].body] =>
                history[k].raised.kind # OddHexError
    /\ (history # <<>> /\ BodyIsOdd[blocks[Len(history)].body]) =>
          DOMAIN outdir = DOMAIN before \cup WrittenNames

\* a block with an odd stream, of an id no other block has, reached after a
\* block that was exported
C6_Witness ==
    /\ pc = "failed"
    /\ Len(history) = 2
    /\ history[1].wrote # <<>>
    /\ blocks[2].body = BodyOdd
    /\ blocks[1].resid # blocks[2].resid
    /\ before = EmptyDir
    /\ SheetPath(blocks[2].resid) \notin DOMAIN outdir

\* C8: a second run on the same input text and the same output directory
\* leaves the directory with the same files and the same contents as the
\* first run left it, whether the runs end well or not.
C8_SecondRunChangesNothing ==
    (run = 2 /\ Ended) => outdir = before

\* a second run that has rewritten the files of its first block and failed
\* on its second block
C8_Witness ==
    /\ run = 2
    /\ pc = "failed"
    /\ Len(history) = 2
    /\ history[1].wrote # <<>>
    /\ outdir = before

\* the blocks this run has exported
Exported == { k \in 1..Len(history) : history[k].raised = NoError }

\* the largest declared count among the exported blocks
MaxExported ==
    IF Exported = {} THEN 0
    ELSE LET top == CHOOSE k \in Exported :
                        \A j \in Exported :
                            BodyCount(blocks[j].body) <= BodyCount(blocks[k].body)
         IN  BodyCount(blocks[top].body)

\* the last exported block that has a pattern number i
LastWith(i) ==
    CHOOSE k \in Exported :
        /\ BodyCount(blocks[k].body) > i
        /\ \A j \in Exported : BodyCount(blocks[j].body) > i => j <= k

\* C10: no file is deleted and per-pattern files are named by index alone, so
\* in a run started on an empty directory that has exported blocks of counts
\* n1 .. nk, the directory holds a per-pattern file for exactly the indices
\* 0 .. max(n1..nk) - 1, file i holds pattern i of the last exported block
\* with more than i patterns, and the sheets are exactly those of the ids of
\* exported blocks of count > 0.
C10_FilesByIndexLastWins ==
    before = EmptyDir =>
        /\ { n \in DOMAIN outdir : n.ext = ".pbm" }
              = { PbmPath(i) : i \in 0..(MaxExported - 1) }
        /\ \A i \in 0..(MaxExported - 1) :
              ReadPbm(outdir[PbmPath(i)])
                  = PatternBytes(BodyPayload[blocks[LastWith(i)].body], i)
        /\ { n \in DOMAIN outdir : n.ext = "_sheet.png" }
              = { SheetPath(blocks[k].resid) :
                    k \in { j \in Exported : BodyCount(blocks[j].body) > 0 } }
        /\ { n \in DOMAIN outdir : n.ext = "_sheet_labeled.png" }
              = { LabeledPath(blocks[k].resid) :
                    k \in { j \in Exported : BodyCount(blocks[j].body) > 0 } }

\* two patterns of block 128, then one pattern of block 129: file 0 holds the
\* pattern of 129, file 1 still that of 128
C10_Witness ==
    /\ before = EmptyDir
    /\ pc = "done"
    /\ Len(history) = 2
    /\ blocks[1] = [resid |-> 128, body |-> BodyTwo]
    /\ blocks[2] = [resid |-> 129, body |-> BodyOne]
    /\ ReadPbm(outdir[PbmPath(0)]) = PatStripe
    /\ ReadPbm(outdir[PbmPath(1)]) = PatDiag

====
